---- MODULE Spec2Model ----
(***************************************************************************)
(* Model of the rules engine of the Prostate Risk Navigator (src/app.py):  *)
(* TNM stage normalisation, the stage predicates, the NCCN risk decision   *)
(* tree (classify_nccn_risk) and the AJCC 8th prognostic stage decision    *)
(* tree (classify_ajcc_stage).                                             *)
(*                                                                         *)
(* Conventions                                                             *)
(*  - a Python str is a sequence of one-character strings;                 *)
(*  - a Python float PSA is an integer number of 1/PsaScale ng/mL (the     *)
(*    PSA input widget steps by 0.1), so `psa > 40.0` is psa > Ng(40);     *)
(*  - Python's None for a Grade Group is the value None (-1);              *)
(*  - a raised ValueError is a result whose kind is "raise";               *)
(*  - st.session_state is a function from keys to values whose domain is  *)
(*    the set of keys present; a key is a tuple, <<"psa">> for "psa" and  *)
(*    <<"A", "type">> for "A_type".                                       *)
(***************************************************************************)
EXTENDS Integers, Sequences, FiniteSets, TLC

VARIABLES t_stage, n_stage, m_stage, grade_group, psa,
          cores_positive, cores_total, nccn, ajcc,
          norm, session, report, disease_category

(* t_stage .. cores_total : the arguments of a classifier call            *)
(* nccn, ajcc             : what classify_nccn_risk / classify_ajcc_stage *)
(*                          returned or raised                            *)
(* norm                   : what the normaliser and the stage predicates  *)
(*                          returned or raised                            *)
(* session                : st.session_state, the widget values by key    *)
(* report                 : what the "Classify" run of the script showed  *)
(* disease_category       : what classify_disease_category returned or    *)
(*                          raised                                        *)
vars == <<t_stage, n_stage, m_stage, grade_group, psa,
          cores_positive, cores_total, nccn, ajcc,
          norm, session, report, disease_category>>

callArgs == <<t_stage, n_stage, m_stage, grade_group, psa,
              cores_positive, cores_total>>

---------------------------------------------------------------------------
(* Bounds and units *)

PsaScale == 10

MaxPsa == 1000

Ng(x) == x * PsaScale

None == -1

TOTAL_SYSTEMATIC_CORES == 12

---------------------------------------------------------------------------
(* Python string primitives used by _normalize_stage *)

IsSpace(ch) == ch \in {" ", "\t", "\n"}

RECURSIVE lstrip(_)
lstrip(s) ==
    IF Len(s) > 0 /\ IsSpace(Head(s)) THEN lstrip(Tail(s)) ELSE s

RECURSIVE rstrip(_)
rstrip(s) ==
    IF Len(s) > 0 /\ IsSpace(s[Len(s)])
    THEN rstrip(SubSeq(s, 1, Len(s) - 1))
    ELSE s

strip(s) == rstrip(lstrip(s))

(* Mutation: only the prefix letters are folded to lower case. *)
lower_char_PrefixLettersOnly(ch) ==
    CASE ch = "C" -> "c"
      [] ch = "P" -> "p"
      [] OTHER -> ch

lower_char(ch) ==
    CASE ch = "C" -> "c"
      [] ch = "P" -> "p"
      [] ch = "T" -> "t"
      [] ch = "N" -> "n"
      [] ch = "M" -> "m"
      [] ch = "X" -> "x"
      [] ch = "A" -> "a"
      [] ch = "B" -> "b"
      [] OTHER -> ch

lower(s) == [i \in 1..Len(s) |-> lower_char(s[i])]

startswith(s, prefix) ==
    /\ Len(s) >= Len(prefix)
    /\ SubSeq(s, 1, Len(prefix)) = prefix

---------------------------------------------------------------------------
(* Stage normaliser.  The result is [ok |-> TRUE, s |-> canonical code] or *)
(* [ok |-> FALSE, s |-> <<>>] when the code raises ValueError.             *)

ValueError == [ok |-> FALSE, s |-> <<>>]

(* Mutation: only the clinical prefix "c" is stripped. *)
_normalize_stage_ClinicalPrefixOnly(stage, letter) ==
    LET s0 == lower(strip(stage))
        s1 == IF startswith(s0, <<"c">>) THEN Tail(s0) ELSE s0
    IN  IF ~startswith(s1, <<letter>>)
        THEN [ok |-> FALSE, s |-> <<>>]
        ELSE [ok |-> TRUE, s |-> s1]

(* Mutation: the prefix is tested for but left in the result. *)
_normalize_stage_KeepsPrefix(stage, letter) ==
    LET s0 == lower(strip(stage))
        s1 == IF startswith(s0, <<"c">>) \/ startswith(s0, <<"p">>)
              THEN Tail(s0)
              ELSE s0
    IN  IF ~startswith(s1, <<letter>>)
        THEN ValueError
        ELSE [ok |-> TRUE, s |-> s0]

_normalize_stage(stage, letter) ==
    LET s0 == lower(strip(stage))
        s1 == IF startswith(s0, <<"c">>) \/ startswith(s0, <<"p">>)
              THEN Tail(s0)
              ELSE s0
    IN  IF ~startswith(s1, <<letter>>)
        THEN ValueError
        ELSE [ok |-> TRUE, s |-> s1]

normalize_t_stage(t) == _normalize_stage(t, "t")

normalize_n_stage(n) == _normalize_stage(n, "n")

normalize_m_stage(m) == _normalize_stage(m, "m")

(* The predicates below are the values returned when normalisation does   *)
(* not raise; callers test normalize_*_stage(x).ok first, which is where  *)
(* the exception of the code propagates from.                             *)

is_t1(t) == startswith(normalize_t_stage(t).s, <<"t", "1">>)

is_t2(t) == startswith(normalize_t_stage(t).s, <<"t", "2">>)

(* Mutation: any T2 counts as T2a. *)
is_t2a_AnyT2(t) == startswith(normalize_t_stage(t).s, <<"t", "2">>)

is_t2a(t) == startswith(normalize_t_stage(t).s, <<"t", "2", "a">>)

is_t2b_to_t2c(t) ==
    \/ startswith(normalize_t_stage(t).s, <<"t", "2", "b">>)
    \/ startswith(normalize_t_stage(t).s, <<"t", "2", "c">>)

is_t3_to_t4(t) ==
    \/ startswith(normalize_t_stage(t).s, <<"t", "3">>)
    \/ startswith(normalize_t_stage(t).s, <<"t", "4">>)

has_regional_nodes(n) == startswith(normalize_n_stage(n).s, <<"n", "1">>)

has_distant_metastasis(m) == startswith(normalize_m_stage(m).s, <<"m", "1">>)

---------------------------------------------------------------------------
(* NCCN risk groups: classify_nccn_risk *)

(* ValueError raised by _normalize_stage inside a predicate; the message  *)
(* names the axis letter, which the model leaves out.                     *)
NccnRaise == [kind |-> "raise", category |-> "ValueError",
              subcategory |-> "None", irfs |-> <<>>,
              rule |-> "stage must start with its axis letter"]

(* ValueError("Total cores must be > 0") *)
NccnRaiseCoreCount ==
    [kind |-> "raise", category |-> "ValueError",
     subcategory |-> "None", irfs |-> <<>>, rule |-> "Total cores must be > 0"]

NccnReturn(cat, sub, factors, line) ==
    [kind |-> "return", category |-> cat, subcategory |-> sub,
     irfs |-> factors, rule |-> line]


(* Mutation: exactly 50% of the cores still counts as below 50%. *)
percent_cores_below_50_Inclusive(positive, total) == 100 * positive <= 50 * total

(* percent_cores < 50.0 with percent_cores = 100.0 * positive / total and  *)
(* total > 0, compared exactly by cross-multiplication.                    *)
percent_cores_below_50(positive, total) == 100 * positive < 50 * total


(* Mutation: rule 1 tests N1 only. *)
nccn_regional_or_metastatic_NodesOnly(n, m) == has_regional_nodes(n)

(* Mutation: rule 1 tests M1 only. *)
nccn_regional_or_metastatic_MetastasisOnly(n, m) == has_distant_metastasis(m)

nccn_regional_or_metastatic(n, m) ==
    has_regional_nodes(n) \/ has_distant_metastasis(m)

Count(b) == IF b THEN 1 ELSE 0


(* Mutation: the Very high PSA flag includes PSA = 40. *)
very_high_flags_Psa40Inclusive(t, gg, p) ==
    Count(is_t3_to_t4(t)) + Count(gg \in {4, 5}) + Count(p >= Ng(40))

very_high_flags(t, gg, p) ==
    Count(is_t3_to_t4(t)) + Count(gg \in {4, 5}) + Count(p > Ng(40))


(* Mutation: the High PSA flag includes PSA = 20. *)
high_flag_Psa20Inclusive(t, gg, p) ==
    is_t3_to_t4(t) \/ gg \in {4, 5} \/ p >= Ng(20)

(* Mutation: the High rule does not look at the PSA. *)
high_flag_NoPsa(t, gg, p) == is_t3_to_t4(t) \/ gg \in {4, 5}

high_flag(t, gg, p) ==
    is_t3_to_t4(t) \/ gg \in {4, 5} \/ p > Ng(20)

nccn_irfs(t, gg, p) ==
    (IF is_t2b_to_t2c(t) THEN <<"T2b-T2c">> ELSE <<>>)
    \o (IF gg \in {2, 3} THEN <<"Grade Group 2-3">> ELSE <<>>)
    \o (IF Ng(10) <= p /\ p <= Ng(20) THEN <<"PSA 10-20">> ELSE <<>>)

favorable_intermediate(factors, gg, positive, total) ==
    /\ Len(factors) = 1
    /\ gg \in {1, 2}
    /\ percent_cores_below_50(positive, total)


(* Mutation: the Low rule does not look at T. *)
nccn_low_AnyT(t, gg, p) == gg = 1 /\ p < Ng(10)

(* Mutation: the low-risk rule accepts T1 only, not T2a. *)
nccn_low_T1Only(t, gg, p) == is_t1(t) /\ gg = 1 /\ p < Ng(10)

nccn_low(t, gg, p) ==
    (is_t1(t) \/ is_t2a(t)) /\ gg = 1 /\ p < Ng(10)

(* Rules 2-6: the tree below the N1/M1 test (lines 260-296). *)
nccn_localized(t, gg, p, positive, total) ==
    IF ~normalize_t_stage(t).ok THEN NccnRaise
    ELSE IF very_high_flags(t, gg, p) >= 2
    THEN NccnReturn("Very high", "None", <<>>,
                    ">=2 of: T3-T4, Grade Group 4-5, PSA >40 -> Very high-risk.")
    ELSE IF high_flag(t, gg, p)
    THEN NccnReturn("High", "None", <<>>,
                    "At least one of: T3-T4, Grade Group 4-5, PSA >20 -> High-risk.")
    ELSE IF nccn_irfs(t, gg, p) # <<>>
    THEN IF favorable_intermediate(nccn_irfs(t, gg, p), gg, positive, total)
         THEN NccnReturn("Intermediate", "Favorable", nccn_irfs(t, gg, p),
                         "Favorable intermediate: 1 IRF, GG 1-2, <50% cores positive.")
         ELSE NccnReturn("Intermediate", "Unfavorable", nccn_irfs(t, gg, p),
                         "Unfavorable intermediate: >=2 IRFs and/or GG 3 and/or >=50% cores positive.")
    ELSE IF nccn_low(t, gg, p)
    THEN NccnReturn("Low", "None", <<>>,
                    "T1-T2a, Grade Group 1, PSA <10 -> Low-risk.")
    ELSE NccnReturn("Unclassifiable", "None", <<>>,
                    "Does not meet NCCN low/intermediate/high/very-high criteria with given data.")

(* Mutation: the core count is validated after rule 1, where the          *)
(* percentage is first needed.                                            *)
classify_nccn_risk_CoreCountAfterRule1(t, n, m, gg, p, positive, total) ==
    IF ~normalize_n_stage(n).ok THEN NccnRaise
    ELSE IF ~has_regional_nodes(n) /\ ~normalize_m_stage(m).ok THEN NccnRaise
    ELSE IF nccn_regional_or_metastatic(n, m)
    THEN NccnReturn("Metastatic/regional disease (outside localized risk groups)",
                    "None", <<>>,
                    "N1 and/or M1 present -> outside clinically localized NCCN risk groups.")
    ELSE IF total <= 0 THEN NccnRaiseCoreCount
    ELSE nccn_localized(t, gg, p, positive, total)

(* has_regional_nodes(n) raises on a malformed n; has_distant_metastasis  *)
(* (m) is evaluated, and raises on a malformed m, only when the left      *)
(* operand of `or` is false.                                              *)
classify_nccn_risk(t, n, m, gg, p, positive, total) ==
    IF total <= 0 THEN NccnRaiseCoreCount
    ELSE IF ~normalize_n_stage(n).ok THEN NccnRaise
    ELSE IF ~has_regional_nodes(n) /\ ~normalize_m_stage(m).ok THEN NccnRaise
    ELSE IF nccn_regional_or_metastatic(n, m)
    THEN NccnReturn("Metastatic/regional disease (outside localized risk groups)",
                    "None", <<>>,
                    "N1 and/or M1 present -> outside clinically localized NCCN risk groups.")
    ELSE nccn_localized(t, gg, p, positive, total)

---------------------------------------------------------------------------
(* AJCC 8th prognostic stage groups: classify_ajcc_stage *)

AjccRaise == [kind |-> "raise", stage |-> "ValueError", rule |-> ""]

AjccReturn(label, line) == [kind |-> "return", stage |-> label, rule |-> line]

ajcc_tx_t0(t) == normalize_t_stage(t).s \in {<<"t", "x">>, <<"t", "0">>}

ajcc_iiib(t, gg) == is_t3_to_t4(t) /\ gg \in {1, 2, 3, 4}


(* Mutation: the IIIA rule excludes PSA = 20. *)
ajcc_iiia_Psa20Exclusive(t, gg, p) ==
    (is_t1(t) \/ is_t2(t)) /\ gg \in {1, 2, 3, 4} /\ p > Ng(20)

ajcc_iiia(t, gg, p) ==
    (is_t1(t) \/ is_t2(t)) /\ gg \in {1, 2, 3, 4} /\ p >= Ng(20)

ajcc_iic(t, gg, p) ==
    (is_t1(t) \/ is_t2(t)) /\ gg \in {3, 4} /\ p < Ng(20)

ajcc_iib(t, gg, p) ==
    (is_t1(t) \/ is_t2(t)) /\ gg = 2 /\ p < Ng(20)


(* Mutation: the IIA rule drops the lower PSA limit of T1/T2a. *)
ajcc_iia_NoLowerPsa(t, gg, p) ==
    /\ gg = 1 /\ p < Ng(20)
    /\ \/ (is_t1(t) \/ is_t2a(t)) /\ p < Ng(20)
       \/ is_t2b_to_t2c(t) /\ p < Ng(20)

(* Mutation: T2b/T2c is treated like T1/T2a (only 10 <= PSA < 20). *)
ajcc_iia_T2bcNeedsPsa10(t, gg, p) ==
    /\ gg = 1 /\ p < Ng(20)
    /\ (is_t1(t) \/ is_t2a(t) \/ is_t2b_to_t2c(t))
    /\ Ng(10) <= p /\ p < Ng(20)

ajcc_iia(t, gg, p) ==
    /\ gg = 1 /\ p < Ng(20)
    /\ \/ (is_t1(t) \/ is_t2a(t)) /\ Ng(10) <= p /\ p < Ng(20)
       \/ is_t2b_to_t2c(t) /\ p < Ng(20)

(* Mutation: the Stage I rule accepts every T2, the unsubdivided one too. *)
ajcc_i_AnyT2(t, gg, p) ==
    gg = 1 /\ (is_t1(t) \/ is_t2(t)) /\ p < Ng(10)

ajcc_i(t, gg, p) ==
    gg = 1 /\ (is_t1(t) \/ is_t2a(t)) /\ p < Ng(10)

(* Rules 5-11: T is neither TX nor T0 and the Grade Group is 1..4        *)
(* (lines 573-599).                                                       *)
ajcc_grade_1_to_4(t, p, gg) ==
    IF ajcc_iiib(t, gg)
    THEN AjccReturn("Stage IIIB", "T3-T4, N0/NX, M0, Grade Group 1-4 -> Stage IIIB.")
    ELSE IF ajcc_iiia(t, gg, p)
    THEN AjccReturn("Stage IIIA", "T1-T2, N0/NX, M0, Grade Group 1-4, PSA >=20 -> Stage IIIA.")
    ELSE IF ajcc_iic(t, gg, p)
    THEN AjccReturn("Stage IIC", "T1-T2, N0/NX, M0, Grade Group 3-4, PSA <20 -> Stage IIC.")
    ELSE IF ajcc_iib(t, gg, p)
    THEN AjccReturn("Stage IIB", "T1-T2, N0/NX, M0, Grade Group 2, PSA <20 -> Stage IIB.")
    ELSE IF ajcc_iia(t, gg, p)
    THEN AjccReturn("Stage IIA", "Grade Group 1, N0/NX, M0, PSA <20 with appropriate T -> Stage IIA.")
    ELSE IF ajcc_i(t, gg, p)
    THEN AjccReturn("Stage I", "cT1-cT2a, N0/NX, M0, Grade Group 1, PSA <10 -> Stage I.")
    ELSE AjccReturn("Stage group cannot be determined",
                    "Does not fit standard AJCC 8th prognostic groups with the provided data.")


(* Mutation: the Grade Group 5 rule is tested before the TX/T0 rule. *)
ajcc_no_n1_m1_Grade5First(t, p, gg) ==
    IF ~normalize_t_stage(t).ok THEN AjccRaise
    ELSE IF gg = 5
    THEN AjccReturn("Stage IIIC", "Any T, N0/NX, M0, Grade Group 5 -> Stage IIIC.")
    ELSE IF ajcc_tx_t0(t)
    THEN AjccReturn("Stage cannot be determined (TX/T0)",
                    "Primary tumor TX/T0 -> Stage group cannot be assigned.")
    ELSE ajcc_grade_1_to_4(t, p, gg)

(* Rules 3-11: no M1 and no N1 (lines 558-599). *)
ajcc_no_n1_m1(t, p, gg) ==
    IF ~normalize_t_stage(t).ok THEN AjccRaise
    ELSE IF ajcc_tx_t0(t)
    THEN AjccReturn("Stage cannot be determined (TX/T0)",
                    "Primary tumor TX/T0 -> Stage group cannot be assigned.")
    ELSE IF gg = 5
    THEN AjccReturn("Stage IIIC", "Any T, N0/NX, M0, Grade Group 5 -> Stage IIIC.")
    ELSE ajcc_grade_1_to_4(t, p, gg)


(* Mutation: the N1 rule is tested before the M1 rule. *)
ajcc_known_grade_NodesFirst(t, n, m, p, gg) ==
    IF ~normalize_n_stage(n).ok THEN AjccRaise
    ELSE IF has_regional_nodes(n)
    THEN AjccReturn("Stage IVA", "Any T, N1, M0 -> Stage IVA.")
    ELSE IF ~normalize_m_stage(m).ok THEN AjccRaise
    ELSE IF has_distant_metastasis(m)
    THEN AjccReturn("Stage IVB", "Any T, any N, M1 -> Stage IVB.")
    ELSE ajcc_no_n1_m1(t, p, gg)

(* Rules 1-11: the Grade Group is known (lines 548-599). *)
ajcc_known_grade(t, n, m, p, gg) ==
    IF ~normalize_m_stage(m).ok THEN AjccRaise
    ELSE IF has_distant_metastasis(m)
    THEN AjccReturn("Stage IVB", "Any T, any N, M1 -> Stage IVB.")
    ELSE IF ~normalize_n_stage(n).ok THEN AjccRaise
    ELSE IF has_regional_nodes(n)
    THEN AjccReturn("Stage IVA", "Any T, N1, M0 -> Stage IVA.")
    ELSE ajcc_no_n1_m1(t, p, gg)


(* Mutation: the M1 rule is tested before the Grade Group is looked at. *)
classify_ajcc_stage_MetastasisFirst(t, n, m, p, gg) ==
    IF normalize_m_stage(m).ok /\ has_distant_metastasis(m)
    THEN AjccReturn("Stage IVB", "Any T, any N, M1 -> Stage IVB.")
    ELSE IF gg = None
    THEN AjccReturn("Stage group cannot be determined (Grade Group unknown)",
                    "Grade Group not provided.")
    ELSE ajcc_known_grade(t, n, m, p, gg)

classify_ajcc_stage(t, n, m, p, gg) ==
    IF gg = None
    THEN AjccReturn("Stage group cannot be determined (Grade Group unknown)",
                    "Grade Group not provided.")
    ELSE ajcc_known_grade(t, n, m, p, gg)

---------------------------------------------------------------------------
(* Inputs.  The stage strings are the option lists of the form (clinical   *)
(* and pathologic), some spellings _normalize_stage also accepts, and      *)
(* strings it rejects.                                                     *)

T_STAGE_OPTIONS ==
    { <<"c", "T", "X">>, <<"c", "T", "0">>,
      <<"c", "T", "1", "a">>, <<"c", "T", "1", "b">>, <<"c", "T", "1", "c">>,
      <<"c", "T", "2", "a">>, <<"c", "T", "2", "b">>, <<"c", "T", "2", "c">>,
      <<"c", "T", "3", "a">>, <<"c", "T", "3", "b">>, <<"c", "T", "4">> }

PT_STAGE_OPTIONS ==
    { <<"p", "T", "2">>, <<"p", "T", "3", "a">>, <<"p", "T", "3", "b">>,
      <<"p", "T", "4">> }

N_STAGE_OPTIONS == { <<"c", "N", "X">>, <<"c", "N", "0">>, <<"c", "N", "1">> }

PN_STAGE_OPTIONS == { <<"p", "N", "X">>, <<"p", "N", "0">>, <<"p", "N", "1">> }

M_STAGE_OPTIONS ==
    { <<"c", "M", "0">>, <<"c", "M", "1">>, <<"c", "M", "1", "a">>,
      <<"c", "M", "1", "b">>, <<"c", "M", "1", "c">> }

OtherTSpellings == { <<" ", "t", "2", "b", " ">>, <<"T", "3", "a">> }

MalformedT == { <<"c", "N", "1">>, <<"p", "c", "T", "1", "c">> }

MalformedN == { <<"c", "M", "1">> }

MalformedM == { <<"c", "c", "M", "1">> }

TStrings == T_STAGE_OPTIONS \cup PT_STAGE_OPTIONS \cup OtherTSpellings \cup MalformedT

NStrings == N_STAGE_OPTIONS \cup PN_STAGE_OPTIONS \cup MalformedN

MStrings == M_STAGE_OPTIONS \cup MalformedM

GradeGroups == {None} \cup (1..5)

(* PSA values: the thresholds of the two decision trees, the values one  *)
(* step below or above them, the form's default 6.5, the values 5, 8, 15  *)
(* and 50, and the largest value.                                         *)
PsaValues ==
    { 0, Ng(5), Ng(8), Ng(6) + PsaScale \div 2, Ng(10) - 1, Ng(10), Ng(15),
      Ng(20) - 1, Ng(20), Ng(20) + 1, Ng(40), Ng(40) + 1, Ng(50), MaxPsa }

(* <<cores_positive, cores_total>> *)
CoreCounts ==
    { <<0, TOTAL_SYSTEMATIC_CORES>>, <<3, TOTAL_SYSTEMATIC_CORES>>,
      <<5, TOTAL_SYSTEMATIC_CORES>>, <<6, TOTAL_SYSTEMATIC_CORES>>,
      <<1, 2>>, <<1, 3>>, <<0, 0>>, <<1, -1>> }

NotCalledNccn == [kind |-> "none", category |-> "", subcategory |-> "None",
                  irfs |-> <<>>, rule |-> ""]

NotCalledAjcc == [kind |-> "none", stage |-> "", rule |-> ""]

(* Spellings of a stage handed to the normaliser and to the predicates:   *)
(* every option of the five selectboxes as the form writes it, without    *)
(* its prefix, in lower case, with the other prefix, in upper case and    *)
(* padded with white space, and strings that are not a stage of any axis. *)
AllStageOptions ==
    T_STAGE_OPTIONS \cup PT_STAGE_OPTIONS \cup N_STAGE_OPTIONS
        \cup PN_STAGE_OPTIONS \cup M_STAGE_OPTIONS

SpellingsOf(option) ==
    { option, Tail(option), lower(option), lower(Tail(option)),
      <<"c">> \o lower(Tail(option)), <<"p">> \o lower(Tail(option)),
      <<"C">> \o Tail(option), <<"P">> \o Tail(option),
      <<" ">> \o option \o <<" ">>, <<"\t">> \o Tail(option) \o <<"\n">> }

OtherSpellings ==
    { <<>>, <<" ">>, <<"c">>, <<"p">>, <<"T">>, <<"1", "c">>,
      <<"p", "c", "T", "1", "c">>, <<"c", "c", "M", "1">>,
      <<"c", "p", "N", "0">>, <<"p", "p", "t", "2", "a">>,
      <<"c", " ", "T", "2", "a">>, <<"x", "T", "2", "a">> }

StageSpellings ==
    UNION { SpellingsOf(option) : option \in AllStageOptions } \cup OtherSpellings

NotNormalized ==
    [kind |-> "none", t |-> ValueError, n |-> ValueError, m |-> ValueError,
     is_t1 |-> "", is_t2 |-> "", is_t2a |-> "", is_t2b_to_t2c |-> "",
     is_t3_to_t4 |-> "", has_regional_nodes |-> "",
     has_distant_metastasis |-> ""]

(* What a predicate call gives: the exception of the normaliser, or the   *)
(* boolean.                                                               *)
PredicateResult(normalized, value) ==
    IF ~normalized.ok THEN "raise" ELSE IF value THEN "True" ELSE "False"

---------------------------------------------------------------------------
(* The form: defaults, option lists and st.session_state *)

DEFAULT_CT_STAGE == <<"c", "T", "1", "c">>

DEFAULT_CN_STAGE == <<"c", "N", "0">>

DEFAULT_CM_STAGE == <<"c", "M", "0">>

DEFAULT_PT_STAGE == <<"p", "T", "2">>

DEFAULT_PN_STAGE == <<"p", "N", "0">>

DEFAULT_PSA == Ng(6) + PsaScale \div 2

DEFAULT_PRIMARY_PATTERN == 3

DEFAULT_SECONDARY_PATTERN == 3

DEFAULT_CORE_PERCENT == 10

DEFAULT_STAGE_CONTEXT == "Clinical staging (cTNM)"

PATHOLOGIC_STAGE_CONTEXT ==
    "Pathologic staging after radical prostatectomy (pTNM)"

(* stage_context.startswith("Clinical") and .startswith("Pathologic") on  *)
(* the two options of the radio button.                                   *)
startswith_Clinical(context) == context = DEFAULT_STAGE_CONTEXT

startswith_Pathologic(context) == context = PATHOLOGIC_STAGE_CONTEXT

(* The "Unknown" option of the manual_gg selectbox; the other options are *)
(* the integers 1..5.                                                     *)
UnknownOption == 0

PATTERN_OPTIONS == { 3, 4, 5 }

CORE_SITES == <<"A", "B", "C", "D", "E", "F", "G", "H", "I", "J", "K", "L">>

TARGETED_SITES == <<"T1", "T2", "T3">>

EmptySession == [key \in {} |-> 0]

(* st.session_state.get(key, default) *)
get(state, key, default) == IF key \in DOMAIN state THEN state[key] ELSE default

NoReport == [kind |-> "none"]

(* The script stopped with an exception before it showed a result. *)
RaisedReport == [kind |-> "raise"]

---------------------------------------------------------------------------
(* Gleason patterns to Grade Group: gleason_to_grade_group returns        *)
(* (grade group, score, text); the text is left out.                      *)

(* Mutation: 3+5 and 5+3 are missing from the table. *)
gleason_to_grade_group_NoMixed35(primary, secondary) ==
    LET score == primary + secondary
    IN  IF primary = 3 /\ secondary = 3 THEN [gg |-> 1, score |-> score]
        ELSE IF primary = 3 /\ secondary = 4 THEN [gg |-> 2, score |-> score]
        ELSE IF primary = 4 /\ secondary = 3 THEN [gg |-> 3, score |-> score]
        ELSE IF primary = 4 /\ secondary = 4 THEN [gg |-> 4, score |-> score]
        ELSE IF \/ primary = 4 /\ secondary = 5
                \/ primary = 5 /\ secondary = 4
                \/ primary = 5 /\ secondary = 5
             THEN [gg |-> 5, score |-> score]
        ELSE [gg |-> None, score |-> score]

gleason_to_grade_group(primary, secondary) ==
    LET score == primary + secondary
    IN  IF primary = 3 /\ secondary = 3 THEN [gg |-> 1, score |-> score]
        ELSE IF primary = 3 /\ secondary = 4 THEN [gg |-> 2, score |-> score]
        ELSE IF primary = 4 /\ secondary = 3 THEN [gg |-> 3, score |-> score]
        ELSE IF \/ primary = 4 /\ secondary = 4
                \/ primary = 3 /\ secondary = 5
                \/ primary = 5 /\ secondary = 3
             THEN [gg |-> 4, score |-> score]
        ELSE IF \/ primary = 4 /\ secondary = 5
                \/ primary = 5 /\ secondary = 4
                \/ primary = 5 /\ secondary = 5
             THEN [gg |-> 5, score |-> score]
        ELSE [gg |-> None, score |-> score]

---------------------------------------------------------------------------
(* The "Classify" handler: what it reads from the form *)

stage_context(state) == get(state, <<"stage_context">>, DEFAULT_STAGE_CONTEXT)

psa_input(state) == get(state, <<"psa">>, DEFAULT_PSA)

manual_gg_option(state) == get(state, <<"manual_gg">>, UnknownOption)

(* Mutation: "Unknown" becomes Grade Group 0. *)
manual_grade_group_UnknownIsZero(state) ==
    IF manual_gg_option(state) = UnknownOption
    THEN 0
    ELSE manual_gg_option(state)

manual_grade_group(state) ==
    IF manual_gg_option(state) = UnknownOption
    THEN None
    ELSE manual_gg_option(state)

has_biopsy_details(state) == get(state, <<"has_biopsy_details">>, TRUE)

(* One entry of systematic_cancer_cores or targeted_cancer_cores. *)
cancer_core(state, code, systematic) ==
    LET p == get(state, <<code, "p">>, DEFAULT_PRIMARY_PATTERN)
        s == get(state, <<code, "s">>, DEFAULT_SECONDARY_PATTERN)
        graded == gleason_to_grade_group(p, s)
    IN  [code |-> code, primary |-> p, secondary |-> s,
         gleason_score |-> graded.score, grade_group |-> graded.gg,
         percent |-> get(state, <<code, "pct">>, DEFAULT_CORE_PERCENT),
         systematic |-> systematic,
         epe |-> get(state, <<code, "epe">>, FALSE),
         pni |-> get(state, <<code, "pni">>, FALSE)]

(* The sites of a list whose pathology result is core_type, in the order  *)
(* of the list.                                                           *)
sites_of_type(state, sites, default, core_type) ==
    SelectSeq(sites, LAMBDA code : get(state, <<code, "type">>, default) = core_type)

systematic_cancer_cores(state) ==
    IF has_biopsy_details(state)
    THEN LET found == sites_of_type(state, CORE_SITES, "Benign", "Cancer")
         IN  [i \in 1..Len(found) |-> cancer_core(state, found[i], TRUE)]
    ELSE <<>>

targeted_cancer_cores(state) ==
    IF has_biopsy_details(state)
    THEN LET found == sites_of_type(state, TARGETED_SITES, "Not taken", "Cancer")
         IN  [i \in 1..Len(found) |-> cancer_core(state, found[i], FALSE)]
    ELSE <<>>

asap_count(state) ==
    IF has_biopsy_details(state)
    THEN Len(sites_of_type(state, CORE_SITES, "Benign", "ASAP"))
            + Len(sites_of_type(state, TARGETED_SITES, "Not taken", "ASAP"))
    ELSE 0

all_cancer_cores(state) ==
    systematic_cancer_cores(state) \o targeted_cancer_cores(state)

(* Mutation: the targeted cores are counted as well. *)
positive_systematic_AllCores(state) == Len(all_cancer_cores(state))

positive_systematic(state) == Len(systematic_cancer_cores(state))

positive_targeted(state) == Len(targeted_cancer_cores(state))

(* 100.0 * positive_systematic / TOTAL_SYSTEMATIC_CORES, kept exact as    *)
(* <<numerator, denominator>>.                                            *)
percent_sys_pos(state) ==
    IF TOTAL_SYSTEMATIC_CORES > 0
    THEN <<100 * positive_systematic(state), TOTAL_SYSTEMATIC_CORES>>
    ELSE <<0, 1>>

(* The flags and counts both loops accumulate, over the cancer cores. *)
high_volume_core(cores) == \E i \in 1..Len(cores) : cores[i].percent >= 50

high_grade_cores_gg4_5(cores) ==
    Cardinality({ i \in 1..Len(cores) : cores[i].grade_group \in { 4, 5 } })

epe_count_any(cores) == Cardinality({ i \in 1..Len(cores) : cores[i].epe })

pni_count_any(cores) == Cardinality({ i \in 1..Len(cores) : cores[i].pni })

(* Mutation: EPE in one core and Grade Group >= 3 in another count. *)
any_epe_high_gg_AcrossCores(cores) ==
    /\ \E i \in 1..Len(cores) : cores[i].epe
    /\ \E i \in 1..Len(cores) :
          cores[i].grade_group # None /\ cores[i].grade_group >= 3

any_epe_high_gg(cores) ==
    \E i \in 1..Len(cores) :
        cores[i].epe /\ cores[i].grade_group # None /\ cores[i].grade_group >= 3

any_pni_high_gg(cores) ==
    \E i \in 1..Len(cores) :
        cores[i].pni /\ cores[i].grade_group # None /\ cores[i].grade_group >= 3

(* The grade groups max() ranges over; max() of none raises ValueError. *)
known_grade_groups(cores) ==
    { cores[i].grade_group : i \in 1..Len(cores) } \ { None }

max_raises(cores) == cores # <<>> /\ known_grade_groups(cores) = {}

highest_gg(cores) ==
    IF cores # <<>>
    THEN LET known == known_grade_groups(cores)
         IN  CHOOSE g \in known : \A h \in known : h <= g
    ELSE None

(* Mutation: the last core with the highest grade is the example. *)
example_core_LastOfHighest(cores) ==
    IF cores # <<>>
    THEN LET highest == highest_gg(cores)
             highest_cores ==
                 SelectSeq(cores, LAMBDA c : c.grade_group = highest)
         IN  highest_cores[Len(highest_cores)].code
    ELSE ""

(* highest_cores[0]: the first core of the list with the highest grade;   *)
(* the report keeps its site code, "" for None.                           *)
example_core(cores) ==
    IF cores # <<>>
    THEN LET highest == highest_gg(cores)
             highest_cores ==
                 SelectSeq(cores, LAMBDA c : c.grade_group = highest)
         IN  highest_cores[1].code
    ELSE ""

grade_for_stage(state) ==
    IF all_cancer_cores(state) # <<>>
    THEN highest_gg(all_cancer_cores(state))
    ELSE manual_grade_group(state)

ct_stage_ss(state) == get(state, <<"ct_stage">>, DEFAULT_CT_STAGE)

cn_stage_ss(state) == get(state, <<"cn_stage">>, DEFAULT_CN_STAGE)

cm_stage_ss(state) == get(state, <<"cm_stage">>, DEFAULT_CM_STAGE)

pt_stage_ss(state) == get(state, <<"pt_stage">>, DEFAULT_PT_STAGE)

pn_stage_ss(state) == get(state, <<"pn_stage">>, DEFAULT_PN_STAGE)

t_for_stage(state) ==
    IF startswith_Pathologic(stage_context(state))
    THEN pt_stage_ss(state)
    ELSE ct_stage_ss(state)

n_for_stage(state) ==
    IF startswith_Pathologic(stage_context(state))
    THEN pn_stage_ss(state)
    ELSE cn_stage_ss(state)

m_for_stage(state) == cm_stage_ss(state)

(* Mutation: the nodes are tested before the metastases. *)
classify_disease_category_NodesFirst(n, m) ==
    IF has_regional_nodes(n) THEN "Node-positive (N1, M0)"
    ELSE IF has_distant_metastasis(m) THEN "Metastatic CSPC (M1)"
    ELSE IF ~has_regional_nodes(n) /\ ~has_distant_metastasis(m)
         THEN "Localized"
    ELSE "Uncertain"

classify_disease_category(n, m) ==
    IF has_distant_metastasis(m) THEN "Metastatic CSPC (M1)"
    ELSE IF has_regional_nodes(n) /\ ~has_distant_metastasis(m)
         THEN "Node-positive (N1, M0)"
    ELSE IF ~has_regional_nodes(n) /\ ~has_distant_metastasis(m)
         THEN "Localized"
    ELSE "Uncertain"

(* classify_disease_category raises when a predicate it evaluates does. *)
disease_category_raises(n, m) ==
    \/ ~normalize_m_stage(m).ok
    \/ ~has_distant_metastasis(m) /\ ~normalize_n_stage(n).ok

NotCalledCategory == [kind |-> "none", category |-> ""]

CategoryRaise == [kind |-> "raise", category |-> "ValueError"]

disease_category_result(n, m) ==
    IF disease_category_raises(n, m)
    THEN CategoryRaise
    ELSE [kind |-> "return", category |-> classify_disease_category(n, m)]

DEFAULT_MARGIN == "Unknown / not applicable"

rp_margin(state) == get(state, <<"rp_margin">>, DEFAULT_MARGIN)

(* can_compute_nccn without the clinical-basis condition. *)
can_compute_nccn_AnyContext(state) ==
    /\ has_biopsy_details(state)
    /\ all_cancer_cores(state) # <<>>
    /\ grade_for_stage(state) # None

can_compute_nccn(state) ==
    /\ startswith_Clinical(stage_context(state))
    /\ has_biopsy_details(state)
    /\ all_cancer_cores(state) # <<>>
    /\ grade_for_stage(state) # None


---------------------------------------------------------------------------
(* State machine: the arguments of one call, then the call. *)

InitInputs ==
    /\ t_stage \in TStrings
    /\ n_stage \in NStrings
    /\ m_stage \in MStrings
    /\ grade_group \in GradeGroups
    /\ psa \in PsaValues
    /\ nccn = NotCalledNccn
    /\ ajcc = NotCalledAjcc
    /\ norm = NotNormalized
    /\ session = EmptySession
    /\ report = NoReport
    /\ disease_category = NotCalledCategory

InitNccn ==
    /\ InitInputs
    /\ \E c \in CoreCounts : cores_positive = c[1] /\ cores_total = c[2]

InitAjcc ==
    /\ InitInputs
    /\ cores_positive = 0
    /\ cores_total = TOTAL_SYSTEMATIC_CORES

CallNccn ==
    /\ nccn.kind = "none"
    /\ nccn' = classify_nccn_risk(t_stage, n_stage, m_stage, grade_group, psa,
                                  cores_positive, cores_total)
    /\ UNCHANGED <<callArgs, ajcc, norm, session, report, disease_category>>

CallAjcc ==
    /\ ajcc.kind = "none"
    /\ ajcc' = classify_ajcc_stage(t_stage, n_stage, m_stage, psa, grade_group)
    /\ UNCHANGED <<callArgs, nccn, norm, session, report, disease_category>>

NextNccn == CallNccn

NextAjcc == CallAjcc

SpecNccn == InitNccn /\ [][NextNccn]_vars

SpecAjcc == InitAjcc /\ [][NextAjcc]_vars

(* One string handed to the three normalisers and the seven predicates. *)
InitNormalize ==
    /\ \E x \in StageSpellings : t_stage = x /\ n_stage = x /\ m_stage = x
    /\ grade_group = None
    /\ psa = 0
    /\ cores_positive = 0
    /\ cores_total = TOTAL_SYSTEMATIC_CORES
    /\ nccn = NotCalledNccn
    /\ ajcc = NotCalledAjcc
    /\ norm = NotNormalized
    /\ session = EmptySession
    /\ report = NoReport
    /\ disease_category = NotCalledCategory

Normalize ==
    /\ norm.kind = "none"
    /\ norm' =
         [kind |-> "done",
          t |-> normalize_t_stage(t_stage),
          n |-> normalize_n_stage(n_stage),
          m |-> normalize_m_stage(m_stage),
          is_t1 |-> PredicateResult(normalize_t_stage(t_stage), is_t1(t_stage)),
          is_t2 |-> PredicateResult(normalize_t_stage(t_stage), is_t2(t_stage)),
          is_t2a |-> PredicateResult(normalize_t_stage(t_stage), is_t2a(t_stage)),
          is_t2b_to_t2c |->
              PredicateResult(normalize_t_stage(t_stage), is_t2b_to_t2c(t_stage)),
          is_t3_to_t4 |->
              PredicateResult(normalize_t_stage(t_stage), is_t3_to_t4(t_stage)),
          has_regional_nodes |->
              PredicateResult(normalize_n_stage(n_stage), has_regional_nodes(n_stage)),
          has_distant_metastasis |->
              PredicateResult(normalize_m_stage(m_stage),
                              has_distant_metastasis(m_stage))]
    /\ UNCHANGED <<callArgs, nccn, ajcc, session, report, disease_category>>

NextNormalize == Normalize

SpecNormalize == InitNormalize /\ [][NextNormalize]_vars

---------------------------------------------------------------------------
(* State machine of the form: a filled form, then the click on "Classify  *)
(* AJCC Stage and NCCN Risk".                                             *)

(* The keys of one core and the session entries of a core whose result is *)
(* "Cancer": the widgets of its patterns, percentage and flags exist.     *)
CORE_FIELDS == { "type", "p", "s", "pct", "epe", "pni" }

CancerEntry(code, p, s, pct, epe, pni) ==
    [key \in { <<code, field>> : field \in CORE_FIELDS } |->
        CASE key[2] = "type" -> "Cancer"
          [] key[2] = "p" -> p
          [] key[2] = "s" -> s
          [] key[2] = "pct" -> pct
          [] key[2] = "epe" -> epe
          [] key[2] = "pni" -> pni]

CancerEntries(code, details) ==
    { CancerEntry(code, p, s, d[1], d[2], d[3]) :
        p \in PATTERN_OPTIONS, s \in PATTERN_OPTIONS, d \in details }

(* The session entries of one widget, one per value. *)
Entry(key, values) == { key :> v : v \in values }

(* <<percent, epe, pni>> of a cancer core as the widgets start. *)
DefaultDetails == { <<DEFAULT_CORE_PERCENT, FALSE, FALSE>> }

(* Sites C..L left alone, only C cancer with Gleason 3+3, or all ten      *)
(* cancer with Gleason 3+4.                                               *)
RestOfSites ==
    { EmptySession,
      CancerEntry("C", 3, 3, DEFAULT_CORE_PERCENT, FALSE, FALSE),
      [key \in { <<CORE_SITES[i], field>> : i \in 3..Len(CORE_SITES),
                                            field \in CORE_FIELDS } |->
        CASE key[2] = "type" -> "Cancer"
          [] key[2] = "p" -> 3
          [] key[2] = "s" -> 4
          [] key[2] = "pct" -> DEFAULT_CORE_PERCENT
          [] OTHER -> FALSE] }

(* The entries of the sites A, B and T1 that the biopsy runs range over. *)
(* The values a core keeps from an earlier "Cancer" entry after its       *)
(* result was changed to core_type.                                       *)
StaleEntry(code, core_type) ==
    (<<code, "type">> :> core_type) @@ CancerEntry(code, 4, 5, 80, TRUE, TRUE)

SiteAEntries ==
    { EmptySession } \cup Entry(<<"A", "type">>, { "Benign", "ASAP" })
        \cup CancerEntries("A", DefaultDetails)
        \cup { CancerEntry("A", 3, 4, 50, TRUE, FALSE),
                 CancerEntry("A", 4, 3, 49, FALSE, TRUE),
                 CancerEntry("A", 3, 3, 49, TRUE, TRUE),
                 CancerEntry("A", 4, 4, 100, FALSE, FALSE) }
        \cup { StaleEntry("A", "Benign"), StaleEntry("A", "ASAP") }

SiteBEntries ==
    { EmptySession } \cup Entry(<<"B", "type">>, { "ASAP" })
        \cup { CancerEntry("B", p, p, DEFAULT_CORE_PERCENT, FALSE, FALSE) :
                 p \in PATTERN_OPTIONS }

SiteT1Entries ==
    { EmptySession }
        \cup Entry(<<"T1", "type">>, { "Not taken", "Benign", "ASAP" })
        \cup CancerEntries("T1", DefaultDetails)
        \cup { CancerEntry("T1", 4, 3, 50, TRUE, TRUE),
                 CancerEntry("T1", 3, 3, 1, FALSE, TRUE) }
        \cup { StaleEntry("T1", "Not taken") }

ContextEntries ==
    Entry(<<"stage_context">>, { DEFAULT_STAGE_CONTEXT, PATHOLOGIC_STAGE_CONTEXT })

BiopsyDetailsEntries == Entry(<<"has_biopsy_details">>, BOOLEAN)

(* PSA entered in the form: the default, 10.0 and 20.0. *)
FormPsaValues == { DEFAULT_PSA, Ng(10), Ng(20) }

(* Before the click nothing has been classified. *)
InitFilled ==
    /\ t_stage = DEFAULT_CT_STAGE
    /\ n_stage = DEFAULT_CN_STAGE
    /\ m_stage = DEFAULT_CM_STAGE
    /\ grade_group = None
    /\ psa = DEFAULT_PSA
    /\ cores_positive = 0
    /\ cores_total = TOTAL_SYSTEMATIC_CORES
    /\ nccn = NotCalledNccn
    /\ ajcc = NotCalledAjcc
    /\ norm = NotNormalized
    /\ report = NoReport
    /\ disease_category = NotCalledCategory

(* Biopsy entries of every kind on the default TNM and PSA. *)
InitBiopsy ==
    /\ InitFilled
    /\ \E a \in SiteAEntries, b \in SiteBEntries, t \in SiteT1Entries,
          rest \in RestOfSites, context \in ContextEntries,
          details \in BiopsyDetailsEntries,
          manual \in Entry(<<"manual_gg">>, { UnknownOption, 2 }) :
          session = a @@ b @@ t @@ rest @@ context @@ details @@ manual

(* TNM, PSA and the manual Grade Group of every kind on a few biopsies. *)
InitForm ==
    /\ InitFilled
    /\ \E ct \in { EmptySession }
                   \cup Entry(<<"ct_stage">>,
                              { <<"c", "T", "2", "a">>, <<"c", "T", "3", "a">> }),
          cn \in { EmptySession } \cup Entry(<<"cn_stage">>, { <<"c", "N", "1">> }),
          cm \in { EmptySession }
                   \cup Entry(<<"cm_stage">>, { <<"c", "M", "1", "b">> }),
          pt \in { EmptySession }
                   \cup Entry(<<"pt_stage">>,
                              { <<"p", "T", "3", "a">>, <<"p", "T", "4">> }),
          pn \in { EmptySession } \cup Entry(<<"pn_stage">>, { <<"p", "N", "1">> }),
          p \in Entry(<<"psa">>, FormPsaValues),
          manual \in Entry(<<"manual_gg">>, { UnknownOption, 1, 2, 5 }),
          details \in BiopsyDetailsEntries,
          context \in ContextEntries,
          a \in { EmptySession,
                  CancerEntry("A", 3, 3, DEFAULT_CORE_PERCENT, FALSE, FALSE),
                  CancerEntry("A", 4, 5, DEFAULT_CORE_PERCENT, FALSE, FALSE) },
          t \in { EmptySession,
                  CancerEntry("T1", 4, 3, DEFAULT_CORE_PERCENT, FALSE, FALSE) } :
          session = ct @@ cn @@ cm @@ pt @@ pn @@ p @@ manual @@ details
                       @@ context @@ a @@ t

(* The run of the script on the click.  t_stage .. cores_total become the *)
(* arguments of the classifier calls; classify_nccn_risk is called with   *)
(* the clinical T and N, which are t_for_stage and n_for_stage whenever   *)
(* can_compute_nccn holds.                                                *)
Classify ==
    /\ report.kind = "none"
    /\ LET cores == all_cancer_cores(session)
           ajcc_result ==
               classify_ajcc_stage(t_for_stage(session), n_for_stage(session),
                                   m_for_stage(session), psa_input(session),
                                   grade_for_stage(session))
           nccn_result ==
               classify_nccn_risk(ct_stage_ss(session), cn_stage_ss(session),
                                  cm_stage_ss(session), grade_for_stage(session),
                                  psa_input(session), positive_systematic(session),
                                  TOTAL_SYSTEMATIC_CORES)
       IN  IF max_raises(cores)
           THEN /\ report' = RaisedReport
                /\ UNCHANGED <<callArgs, nccn, ajcc, disease_category>>
           ELSE /\ t_stage' = t_for_stage(session)
                /\ n_stage' = n_for_stage(session)
                /\ m_stage' = m_for_stage(session)
                /\ grade_group' = grade_for_stage(session)
                /\ psa' = psa_input(session)
                /\ cores_positive' = positive_systematic(session)
                /\ cores_total' = TOTAL_SYSTEMATIC_CORES
                /\ ajcc' = ajcc_result
                /\ disease_category' =
                     IF ajcc_result.kind = "raise"
                     THEN NotCalledCategory
                     ELSE disease_category_result(n_for_stage(session),
                                                  m_for_stage(session))
                /\ IF \/ ajcc_result.kind = "raise"
                      \/ disease_category_raises(n_for_stage(session),
                                                 m_for_stage(session))
                   THEN /\ report' = RaisedReport
                        /\ nccn' = NotCalledNccn
                   ELSE /\ nccn' = IF can_compute_nccn(session)
                                   THEN nccn_result
                                   ELSE NotCalledNccn
                        /\ report' =
                             [kind |-> IF can_compute_nccn(session)
                                          /\ nccn_result.kind = "raise"
                                       THEN "raise"
                                       ELSE "ok",
                              all_cancer_cores |-> cores,
                              positive_systematic |-> positive_systematic(session),
                              positive_targeted |-> positive_targeted(session),
                              percent_sys_pos |-> percent_sys_pos(session),
                              high_volume_core |-> high_volume_core(cores),
                              high_grade_cores_gg4_5 |->
                                  high_grade_cores_gg4_5(cores),
                              asap_count |-> asap_count(session),
                              epe_count_any |-> epe_count_any(cores),
                              pni_count_any |-> pni_count_any(cores),
                              any_epe_high_gg |-> any_epe_high_gg(cores),
                              any_pni_high_gg |-> any_pni_high_gg(cores),
                              highest_gg |-> highest_gg(cores),
                              example_core |-> example_core(cores),
                              disease_category |->
                                  classify_disease_category(
                                      n_for_stage(session), m_for_stage(session)),
                              can_compute_nccn |-> can_compute_nccn(session),
                              risk_group |-> IF can_compute_nccn(session)
                                             THEN nccn_result.category
                                             ELSE "None",
                              subcategory |-> IF can_compute_nccn(session)
                                              THEN nccn_result.subcategory
                                              ELSE "None",
                              rp_margin |-> rp_margin(session)]
    /\ UNCHANGED <<norm, session>>

NextBiopsy == Classify

NextForm == Classify

SpecBiopsy == InitBiopsy /\ [][NextBiopsy]_vars

SpecForm == InitForm /\ [][NextForm]_vars

(* Both classifiers on the same arguments, with a valid core count. *)
CoreCountsBoth ==
    { <<3, TOTAL_SYSTEMATIC_CORES>>, <<6, TOTAL_SYSTEMATIC_CORES>> }

InitBoth ==
    /\ InitInputs
    /\ \E c \in CoreCountsBoth : cores_positive = c[1] /\ cores_total = c[2]

NextBoth == CallNccn \/ CallAjcc

SpecBoth == InitBoth /\ [][NextBoth]_vars

(* The two classifiers and classify_disease_category on the same          *)
(* arguments.                                                             *)
CallCategory ==
    /\ disease_category.kind = "none"
    /\ disease_category' = disease_category_result(n_stage, m_stage)
    /\ UNCHANGED <<callArgs, nccn, ajcc, norm, session, report>>

InitClassifiers == InitBoth

NextClassifiers == CallNccn \/ CallAjcc \/ CallCategory

SpecClassifiers == InitClassifiers /\ [][NextClassifiers]_vars

---------------------------------------------------------------------------
(* "Reset form for next patient": the on_click callback reset_form, then  *)
(* the rerun of the script, in which the "Classify" button is not pressed *)
(* and no classifier is called.                                           *)

top_level_keys ==
    { <<"stage_context">>, <<"ct_stage">>, <<"cn_stage">>, <<"cm_stage">>,
      <<"pt_stage">>, <<"pn_stage">>, <<"rp_margin">>, <<"psa">>,
      <<"manual_gg">>, <<"has_biopsy_details">> }

systematic_core_keys ==
    { <<CORE_SITES[i], suffix>> :
        i \in 1..Len(CORE_SITES),
        suffix \in { "type", "p", "s", "pct", "epe", "pni" } }

targeted_core_keys ==
    { <<TARGETED_SITES[i], suffix>> :
        i \in 1..Len(TARGETED_SITES),
        suffix \in { "type", "p", "s", "pct", "epe", "pni", "desc" } }

(* Mutation: the description of a targeted core is not deleted. *)
reset_form_KeepsDescription(state) ==
    [key \in DOMAIN state
               \ (top_level_keys \cup systematic_core_keys
                    \cup { k \in targeted_core_keys : k[2] # "desc" }) |->
        state[key]]

(* "if key in st.session_state: del st.session_state[key]" for every key  *)
(* of the three lists.                                                    *)
reset_form(state) ==
    [key \in DOMAIN state
               \ (top_level_keys \cup systematic_core_keys
                    \cup targeted_core_keys) |->
        state[key]]

ResetForm ==
    /\ session' = reset_form(session)
    /\ t_stage' = DEFAULT_CT_STAGE
    /\ n_stage' = DEFAULT_CN_STAGE
    /\ m_stage' = DEFAULT_CM_STAGE
    /\ grade_group' = None
    /\ psa' = DEFAULT_PSA
    /\ cores_positive' = 0
    /\ cores_total' = TOTAL_SYSTEMATIC_CORES
    /\ nccn' = NotCalledNccn
    /\ ajcc' = NotCalledAjcc
    /\ disease_category' = NotCalledCategory
    /\ report' = NoReport
    /\ UNCHANGED norm

(* A key that is not an input of the form. *)
OtherEntries == { EmptySession, <<"visits">> :> 1 }

(* A targeted core with cancer and its free-text description. *)
DescribedTargetedCore ==
    CancerEntry("T1", 4, 3, DEFAULT_CORE_PERCENT, FALSE, FALSE)
        @@ (<<"T1", "desc">> :> "PI-RADS 4 lesion")

(* A form filled in part: the PSA widget always has its key. *)
InitReset ==
    /\ InitFilled
    /\ \E other \in OtherEntries,
          margin \in { EmptySession } \cup Entry(<<"rp_margin">>, { "Negative margin (R0)" }),
          context \in { EmptySession } \cup ContextEntries,
          ct \in { EmptySession } \cup Entry(<<"ct_stage">>, { <<"c", "T", "3", "a">> }),
          pt \in { EmptySession } \cup Entry(<<"pt_stage">>, { <<"p", "T", "4">> }),
          nm \in { EmptySession,
                   (<<"cn_stage">> :> <<"c", "N", "1">>)
                       @@ (<<"pn_stage">> :> <<"p", "N", "1">>)
                       @@ (<<"cm_stage">> :> <<"c", "M", "1">>) },
          p \in Entry(<<"psa">>, { DEFAULT_PSA, Ng(20) + 1 }),
          manual \in { EmptySession } \cup Entry(<<"manual_gg">>, { 3 }),
          details \in { EmptySession } \cup BiopsyDetailsEntries,
          a \in { EmptySession,
                  CancerEntry("A", 4, 5, 50, TRUE, TRUE),
                  CancerEntry("L", 3, 3, DEFAULT_CORE_PERCENT, FALSE, FALSE) },
          t \in { EmptySession, DescribedTargetedCore,
                  <<"T3", "type">> :> "Benign" } :
          session = other @@ margin @@ context @@ ct @@ pt @@ nm @@ p
                       @@ manual @@ details @@ a @@ t

NextReset == Classify \/ ResetForm

SpecReset == InitReset /\ [][NextReset]_vars

---------------------------------------------------------------------------
(* Vocabulary of the properties: the category of each argument, read off  *)
(* its canonical code.                                                    *)

WellFormedT == normalize_t_stage(t_stage).ok

WellFormedN == normalize_n_stage(n_stage).ok

WellFormedM == normalize_m_stage(m_stage).ok

WellFormedTNM == WellFormedT /\ WellFormedN /\ WellFormedM

CanonT == normalize_t_stage(t_stage).s

TisTXorT0 == CanonT \in { <<"t", "x">>, <<"t", "0">> }

TisT1 == CanonT \in { <<"t", "1", "a">>, <<"t", "1", "b">>, <<"t", "1", "c">> }

TisT2a == CanonT = <<"t", "2", "a">>

TisT2bc == CanonT \in { <<"t", "2", "b">>, <<"t", "2", "c">> }

TisT2 == TisT2a \/ TisT2bc \/ CanonT = <<"t", "2">>

TisT3orT4 == CanonT \in { <<"t", "3", "a">>, <<"t", "3", "b">>, <<"t", "4">> }

NisN1 == normalize_n_stage(n_stage).s = <<"n", "1">>

MisM1 ==
    normalize_m_stage(m_stage).s \in
        { <<"m", "1">>, <<"m", "1", "a">>, <<"m", "1", "b">>, <<"m", "1", "c">> }

NoN1M1 == WellFormedN /\ WellFormedM /\ ~NisN1 /\ ~MisM1

NccnCalled == nccn.kind # "none"

NccnIs(cat, sub) ==
    nccn.kind = "return" /\ nccn.category = cat /\ nccn.subcategory = sub

MetastaticRegional == "Metastatic/regional disease (outside localized risk groups)"

VeryHighCount ==
    Count(TisT3orT4) + Count(grade_group \in {4, 5}) + Count(psa > Ng(40))

HighCount ==
    Count(TisT3orT4) + Count(grade_group \in {4, 5}) + Count(psa > Ng(20))

IrfCount ==
    Count(TisT2bc) + Count(grade_group \in {2, 3})
    + Count(psa >= Ng(10) /\ psa <= Ng(20))

(* Rules 1-3 of classify_nccn_risk do not fire. *)
NccnBelowHigh ==
    WellFormedTNM /\ cores_total > 0 /\ NoN1M1 /\ VeryHighCount < 2 /\ HighCount = 0

---------------------------------------------------------------------------
(* C1: classify_nccn_risk applies rule 1 first: with cores_total > 0, if  *)
(* N is N1, or M is M1/M1a/M1b/M1c, the result is the metastatic/regional *)
(* category with no subcategory, for every T (also a T that would not     *)
(* normalise), Grade Group and PSA, also when the Very high or High       *)
(* conditions hold.  N ranges over the strings that normalise as N.       *)
C1_Rule1First ==
    (NccnCalled /\ cores_total > 0 /\ WellFormedN /\ (NisN1 \/ MisM1))
        => NccnIs(MetastaticRegional, "None")

(* C1 witness: N1 together with all three Very high flags. *)
C1_Witness ==
    /\ NccnIs(MetastaticRegional, "None")
    /\ NisN1 /\ ~MisM1 /\ WellFormedM
    /\ TisT3orT4 /\ grade_group = 5 /\ psa > Ng(40)

(* C2: classify_nccn_risk returns "Very high" (no subcategory) exactly    *)
(* when neither N1 nor M1 is present and at least 2 of {T3-T4, Grade      *)
(* Group 4-5, PSA > 40} hold; PSA exactly 40 does not count.              *)
C2_VeryHigh ==
    (NccnCalled /\ WellFormedTNM /\ cores_total > 0)
        => /\ (nccn.kind = "return" /\ nccn.category = "Very high")
                <=> (NoN1M1 /\ VeryHighCount >= 2)
           /\ (nccn.category = "Very high" => nccn.subcategory = "None")

(* C2 witness: T3a, N0, M0, GG 5, PSA 50, 6/12 cores. *)
C2_Witness ==
    /\ NccnIs("Very high", "None")
    /\ t_stage = <<"c", "T", "3", "a">> /\ n_stage = <<"c", "N", "0">>
    /\ m_stage = <<"c", "M", "0">> /\ grade_group = 5 /\ psa = Ng(50)
    /\ cores_positive = 6 /\ cores_total = 12

(* C3: classify_nccn_risk returns "High" (no subcategory) exactly when    *)
(* neither N1 nor M1 is present, fewer than 2 Very high flags hold and at *)
(* least 1 of {T3-T4, Grade Group 4-5, PSA > 20} holds; PSA exactly 20    *)
(* alone does not make the case High.                                     *)
C3_High ==
    (NccnCalled /\ WellFormedTNM /\ cores_total > 0)
        => /\ (nccn.kind = "return" /\ nccn.category = "High")
                <=> (NoN1M1 /\ VeryHighCount < 2 /\ HighCount >= 1)
           /\ (nccn.category = "High" => nccn.subcategory = "None")

(* C3 witness: High on the PSA flag alone, one step above 20. *)
C3_Witness ==
    /\ NccnIs("High", "None")
    /\ TisT1 /\ grade_group = 1 /\ psa = Ng(20) + 1

(* C4: when rules 1-3 do not fire and at least one intermediate-risk      *)
(* factor (T2b-T2c; Grade Group 2-3; 10 <= PSA <= 20) is present, the     *)
(* result is Intermediate/Favorable iff there is exactly one factor and   *)
(* the Grade Group is 1 or 2 and 100*cores_positive/cores_total < 50;     *)
(* otherwise it is Intermediate/Unfavorable.                              *)
C4_Intermediate ==
    (NccnCalled /\ NccnBelowHigh /\ IrfCount >= 1)
        => IF /\ IrfCount = 1
              /\ grade_group \in {1, 2}
              /\ 100 * cores_positive < 50 * cores_total
           THEN NccnIs("Intermediate", "Favorable")
           ELSE NccnIs("Intermediate", "Unfavorable")

(* C4 witness: one factor (PSA 10-20), Grade Group 1, exactly 6 of 12     *)
(* cores positive: Unfavorable.                                           *)
C4_Witness ==
    /\ NccnIs("Intermediate", "Unfavorable")
    /\ IrfCount = 1 /\ grade_group = 1
    /\ cores_positive = 6 /\ cores_total = 12

(* C5: when rules 1-4 do not fire the result is "Low" (no subcategory)    *)
(* iff (T1 or T2a) and Grade Group 1 and PSA < 10, and "Unclassifiable"   *)
(* (no subcategory) for every other such input.                           *)
C5_LowOrUnclassifiable ==
    (NccnCalled /\ NccnBelowHigh /\ IrfCount = 0)
        => IF (TisT1 \/ TisT2a) /\ grade_group = 1 /\ psa < Ng(10)
           THEN NccnIs("Low", "None")
           ELSE NccnIs("Unclassifiable", "None")

(* C5 witness: TX, Grade Group 1, PSA 5 is surfaced as Unclassifiable. *)
C5_Witness ==
    /\ NccnIs("Unclassifiable", "None")
    /\ TisTXorT0 /\ grade_group = 1 /\ psa = Ng(5)

---------------------------------------------------------------------------
(* AJCC properties *)

AjccCalled == ajcc.kind # "none"

AjccIs(label) == ajcc.kind = "return" /\ ajcc.stage = label

GradeKnown == grade_group \in 1..5

(* C6: with grade_group = None classify_ajcc_stage returns "Stage group   *)
(* cannot be determined (Grade Group unknown)" for every T, N, M and PSA, *)
(* M1 and N1 included: no stage is returned without a Grade Group.        *)
C6_GradeUnknownFirst ==
    (AjccCalled /\ grade_group = None)
        => AjccIs("Stage group cannot be determined (Grade Group unknown)")

(* C6 witness: Grade Group unknown with M1. *)
C6_Witness ==
    /\ AjccIs("Stage group cannot be determined (Grade Group unknown)")
    /\ grade_group = None /\ MisM1

(* C7: for a known Grade Group, M1 gives "Stage IVB" whatever N, T, PSA   *)
(* and Grade Group are, and N1 without M1 gives "Stage IVA" whatever T,   *)
(* PSA and Grade Group are (TX/T0 and Grade Group 5 included).            *)
C7_Stage4 ==
    (AjccCalled /\ GradeKnown)
        => /\ (MisM1 => AjccIs("Stage IVB"))
           /\ ((WellFormedM /\ ~MisM1 /\ NisN1) => AjccIs("Stage IVA"))

(* C7 witness: N1, M0 with TX/T0 and Grade Group 5 is Stage IVA. *)
C7_Witness ==
    /\ AjccIs("Stage IVA")
    /\ NisN1 /\ ~MisM1 /\ TisTXorT0 /\ grade_group = 5

(* C8: for a known Grade Group and no N1/M1, TX/T0 gives "Stage cannot be *)
(* determined (TX/T0)" also for Grade Group 5; otherwise Grade Group 5    *)
(* gives "Stage IIIC" for every T; otherwise T3/T4 gives "Stage IIIB" for *)
(* every PSA.                                                             *)
C8_Rules3To5 ==
    (AjccCalled /\ GradeKnown /\ NoN1M1 /\ WellFormedT)
        => /\ (TisTXorT0 => AjccIs("Stage cannot be determined (TX/T0)"))
           /\ ((~TisTXorT0 /\ grade_group = 5) => AjccIs("Stage IIIC"))
           /\ ((~TisTXorT0 /\ grade_group # 5 /\ TisT3orT4)
                  => AjccIs("Stage IIIB"))

(* C8 witness: TX/T0 with Grade Group 5. *)
C8_Witness ==
    /\ AjccIs("Stage cannot be determined (TX/T0)")
    /\ NoN1M1 /\ TisTXorT0 /\ grade_group = 5

(* C9: for T1 or T2 (any subcategory), no N1/M1 and Grade Group 1..4:     *)
(* PSA >= 20 gives "Stage IIIA"; Grade Group 3-4 with PSA < 20 gives      *)
(* "Stage IIC"; Grade Group 2 with PSA < 20 gives "Stage IIB".            *)
C9_T1T2PsaRules ==
    (AjccCalled /\ NoN1M1 /\ (TisT1 \/ TisT2) /\ grade_group \in 1..4)
        => /\ (psa >= Ng(20) => AjccIs("Stage IIIA"))
           /\ ((grade_group \in {3, 4} /\ psa < Ng(20)) => AjccIs("Stage IIC"))
           /\ ((grade_group = 2 /\ psa < Ng(20)) => AjccIs("Stage IIB"))

(* C9 witness: PSA exactly 20 is Stage IIIA. *)
C9_Witness ==
    /\ AjccIs("Stage IIIA")
    /\ NoN1M1 /\ TisT2 /\ grade_group = 2 /\ psa = Ng(20)

(* C10: for Grade Group 1, no N1/M1 and PSA < 20: "Stage IIA" when (T1 or *)
(* T2a and 10 <= PSA < 20) or when T2b/T2c (any PSA < 20); "Stage I" when *)
(* T1 or T2a and PSA < 10, which is never Stage IIA.                      *)
C10_Stage2AandStage1 ==
    (AjccCalled /\ NoN1M1 /\ grade_group = 1 /\ psa < Ng(20))
        => /\ (((TisT1 \/ TisT2a) /\ psa >= Ng(10)) => AjccIs("Stage IIA"))
           /\ (TisT2bc => AjccIs("Stage IIA"))
           /\ (((TisT1 \/ TisT2a) /\ psa < Ng(10))
                  => (AjccIs("Stage I") /\ ~AjccIs("Stage IIA")))

(* C10 witness: T2b/T2c with PSA below 10 is Stage IIA. *)
C10_Witness ==
    /\ AjccIs("Stage IIA")
    /\ NoN1M1 /\ TisT2bc /\ grade_group = 1 /\ psa < Ng(10)

(* C11 (as claimed): T2b or T2c with Grade Group 1, PSA < 10 and no N1/M1 *)
(* is neither Stage IIA nor Stage I and falls through to "Stage group     *)
(* cannot be determined".                                                 *)
C11_T2bcLowPsaFallsThrough ==
    (AjccCalled /\ NoN1M1 /\ TisT2bc /\ grade_group = 1 /\ psa < Ng(10))
        => AjccIs("Stage group cannot be determined")

(* C11 (amended): T2b or T2c with Grade Group 1, PSA < 10 and no N1/M1 is *)
(* "Stage IIA" (rule 9 takes T2b-T2c for every PSA < 20); it does not     *)
(* fall through to "Stage group cannot be determined".                    *)
C11_T2bcLowPsaIsStage2A ==
    (AjccCalled /\ NoN1M1 /\ TisT2bc /\ grade_group = 1 /\ psa < Ng(10))
        => (AjccIs("Stage IIA") /\ ajcc.stage # "Stage group cannot be determined")

(* C11 witness: cT2c, N0, M0, Grade Group 1, PSA 5. *)
C11_Witness ==
    /\ AjccIs("Stage IIA")
    /\ t_stage = <<"c", "T", "2", "c">> /\ n_stage = <<"c", "N", "0">>
    /\ m_stage = <<"c", "M", "0">> /\ grade_group = 1 /\ psa = Ng(5)

(* C12 (as claimed): every call of classify_nccn_risk or                  *)
(* classify_ajcc_stage with a T, N or M string that does not normalise    *)
(* fails with the invalid-stage error and returns no label, also when N1, *)
(* M1 or an unknown Grade Group already decides the label.                *)
C12_MalformedStageAlwaysReported ==
    ~WellFormedTNM
        => /\ (NccnCalled => nccn = NccnRaise)
           /\ (AjccCalled => ajcc = AjccRaise)

(* C13: classify_nccn_risk fails with ValueError("Total cores must be >   *)
(* 0") whenever cores_total <= 0, whatever the other arguments are (N1,   *)
(* M1 and stage strings that do not normalise included), and returns no   *)
(* category.                                                              *)
C13_InvalidCoreCount ==
    (NccnCalled /\ cores_total <= 0) => nccn = NccnRaiseCoreCount

(* C13 witness: a zero core count with N1. *)
C13_Witness ==
    /\ nccn = NccnRaiseCoreCount
    /\ cores_total = 0 /\ NisN1

NccnLabels ==
    { <<MetastaticRegional, "None">>, <<"Very high", "None">>,
      <<"High", "None">>, <<"Intermediate", "Favorable">>,
      <<"Intermediate", "Unfavorable">>, <<"Low", "None">>,
      <<"Unclassifiable", "None">> }

AjccLabels ==
    { "Stage group cannot be determined (Grade Group unknown)",
      "Stage IVB", "Stage IVA", "Stage cannot be determined (TX/T0)",
      "Stage IIIC", "Stage IIIB", "Stage IIIA", "Stage IIC", "Stage IIB",
      "Stage IIA", "Stage I", "Stage group cannot be determined" }

ValidTNM ==
    /\ t_stage \in T_STAGE_OPTIONS \cup PT_STAGE_OPTIONS
    /\ n_stage \in N_STAGE_OPTIONS \cup PN_STAGE_OPTIONS
    /\ m_stage \in M_STAGE_OPTIONS

(* C14: over the clinical and pathologic T, N, M option lists, PSA >= 0   *)
(* and cores_total > 0, classify_nccn_risk (Grade Group 1..5) and         *)
(* classify_ajcc_stage (Grade Group 1..5 or None) return, without error,  *)
(* a label of their enumerated label sets.                                *)
C14_TotalOnValidInputs ==
    (ValidTNM /\ psa >= 0 /\ cores_total > 0)
        => /\ (NccnCalled /\ grade_group \in 1..5)
                => /\ nccn.kind = "return"
                   /\ <<nccn.category, nccn.subcategory>> \in NccnLabels
           /\ AjccCalled
                => /\ ajcc.kind = "return"
                   /\ ajcc.stage \in AjccLabels

(* C14 witness: a pathologic T and N, both classifiers have returned. *)
C14_Witness ==
    /\ t_stage \in PT_STAGE_OPTIONS /\ n_stage \in PN_STAGE_OPTIONS
    /\ m_stage \in M_STAGE_OPTIONS /\ grade_group \in 1..5
    /\ nccn.kind = "return" /\ ajcc.kind = "return"

---------------------------------------------------------------------------
(* Vocabulary of the form properties *)

Classified == report.kind = "ok"

PathologicMode ==
    <<"stage_context">> \in DOMAIN session
        /\ session[<<"stage_context">>] = PATHOLOGIC_STAGE_CONTEXT

BiopsyEntered ==
    <<"has_biopsy_details">> \in DOMAIN session
        => session[<<"has_biopsy_details">>]

(* Grade Group by <<primary, secondary>>, as the table is written down. *)
GradeGroupTable ==
    (<<3, 3>> :> 1) @@ (<<3, 4>> :> 2) @@ (<<4, 3>> :> 3)
        @@ (<<4, 4>> :> 4) @@ (<<3, 5>> :> 4) @@ (<<5, 3>> :> 4)
        @@ (<<4, 5>> :> 5) @@ (<<5, 4>> :> 5) @@ (<<5, 5>> :> 5)

ReportedGrades ==
    { report.all_cancer_cores[i].grade_group :
        i \in 1..Len(report.all_cancer_cores) }

(* C15: every cancer core the form can enter has patterns in {3, 4, 5},   *)
(* its Grade Group is the one of the table, never None, and its score is  *)
(* primary + secondary; so with at least one cancer core the maximum      *)
(* Grade Group is defined (max() does not raise) and is in 1..5.          *)
C15_GradeGroupTable ==
    /\ report.kind # "raise"
    /\ Classified =>
          /\ \A i \in 1..Len(report.all_cancer_cores) :
                LET c == report.all_cancer_cores[i]
                IN  /\ <<c.primary, c.secondary>> \in DOMAIN GradeGroupTable
                    /\ c.grade_group = GradeGroupTable[<<c.primary, c.secondary>>]
                    /\ c.grade_group # None
                    /\ c.gleason_score = c.primary + c.secondary
          /\ report.all_cancer_cores # <<>> =>
                /\ report.highest_gg \in 1..5
                /\ report.highest_gg \in ReportedGrades
                /\ \A g \in ReportedGrades : g <= report.highest_gg

(* C15 witness: a 3+5 core at site A (Grade Group 4, score 8) under a     *)
(* highest Grade Group of 5.                                              *)
C15_Witness ==
    /\ Classified
    /\ Len(report.all_cancer_cores) >= 2
    /\ report.all_cancer_cores[1].code = "A"
    /\ report.all_cancer_cores[1].primary = 3
    /\ report.all_cancer_cores[1].secondary = 5
    /\ report.all_cancer_cores[1].grade_group = 4
    /\ report.all_cancer_cores[1].gleason_score = 8
    /\ report.highest_gg = 5

---------------------------------------------------------------------------
(* Vocabulary of the normaliser properties: the canonical codes, written  *)
(* out, and the reading of "begins with the axis letter" by position.     *)

CanonicalT ==
    { <<"t", "x">>, <<"t", "0">>, <<"t", "1", "a">>, <<"t", "1", "b">>,
      <<"t", "1", "c">>, <<"t", "2", "a">>, <<"t", "2", "b">>,
      <<"t", "2", "c">>, <<"t", "3", "a">>, <<"t", "3", "b">>, <<"t", "4">> }

CanonicalN == { <<"n", "x">>, <<"n", "0">>, <<"n", "1">> }

CanonicalM ==
    { <<"m", "0">>, <<"m", "1">>, <<"m", "1", "a">>, <<"m", "1", "b">>,
      <<"m", "1", "c">> }

Normalized == norm.kind = "done"

Returned(code) == [ok |-> TRUE, s |-> code]

WhiteSpace == { " ", "\t", "\n" }

Trimmed(x) ==
    LET ns == { i \in 1..Len(x) : x[i] \notin WhiteSpace }
    IN  IF ns = {}
        THEN <<>>
        ELSE SubSeq(x, CHOOSE i \in ns : \A j \in ns : i <= j,
                       CHOOSE i \in ns : \A j \in ns : i >= j)

AfterOnePrefix(x) ==
    IF Trimmed(x) # <<>> /\ Trimmed(x)[1] \in { "c", "C", "p", "P" }
    THEN Tail(Trimmed(x))
    ELSE Trimmed(x)

BeginsWithT(x) == AfterOnePrefix(x) # <<>> /\ AfterOnePrefix(x)[1] \in { "t", "T" }

BeginsWithN(x) == AfterOnePrefix(x) # <<>> /\ AfterOnePrefix(x)[1] \in { "n", "N" }

BeginsWithM(x) == AfterOnePrefix(x) # <<>> /\ AfterOnePrefix(x)[1] \in { "m", "M" }

(* C16: every canonical code, bare or prefixed with "c" or "p", is        *)
(* normalised to the code itself by the normaliser of its axis.           *)
C16_RoundTrip ==
    Normalized =>
        /\ \A code \in CanonicalT :
              t_stage \in { code, <<"c">> \o code, <<"p">> \o code }
                  => norm.t = Returned(code)
        /\ \A code \in CanonicalN :
              n_stage \in { code, <<"c">> \o code, <<"p">> \o code }
                  => norm.n = Returned(code)
        /\ \A code \in CanonicalM :
              m_stage \in { code, <<"c">> \o code, <<"p">> \o code }
                  => norm.m = Returned(code)

(* C16 witness: "pt3b" has been normalised to "t3b". *)
C16_Witness ==
    /\ Normalized
    /\ t_stage = <<"p", "t", "3", "b">>
    /\ norm.t = Returned(<<"t", "3", "b">>)

(* C17: a normaliser raises exactly when the string, trimmed, lower-cased *)
(* and with at most one leading "c" or "p" removed, does not begin with   *)
(* the axis letter; "cN1" handed to the T normaliser raises.              *)
C17_FailsIffNoAxisLetter ==
    Normalized =>
        /\ norm.t.ok <=> BeginsWithT(t_stage)
        /\ norm.n.ok <=> BeginsWithN(n_stage)
        /\ norm.m.ok <=> BeginsWithM(m_stage)
        /\ ~norm.t.ok => norm.t = ValueError
        /\ t_stage = <<"c", "N", "1">> => ~norm.t.ok

(* C17 witness: "cN1" raised as a T stage and normalised as an N stage. *)
C17_Witness ==
    /\ Normalized
    /\ t_stage = <<"c", "N", "1">>
    /\ norm.t = ValueError
    /\ norm.n = Returned(<<"n", "1">>)

OneOf(a, b, c) == Cardinality({ i \in 1..3 : <<a, b, c>>[i] = "True" }) <= 1

(* C18: on a T stage that normalises at most one of is_t1, is_t2 and      *)
(* is_t3_to_t4 holds; is_t2a and is_t2b_to_t2c each imply is_t2 and       *)
(* exclude each other; has_distant_metastasis holds for m1, m1a, m1b and  *)
(* m1c and not for m0; has_regional_nodes holds for n1 and not for n0 or  *)
(* nx.                                                                    *)
C18_PredicatesArePrefixMatches ==
    Normalized =>
        /\ norm.t.ok =>
              /\ OneOf(norm.is_t1, norm.is_t2, norm.is_t3_to_t4)
              /\ norm.is_t2a = "True" => norm.is_t2 = "True"
              /\ norm.is_t2b_to_t2c = "True" => norm.is_t2 = "True"
              /\ ~(norm.is_t2a = "True" /\ norm.is_t2b_to_t2c = "True")
        /\ norm.t.ok /\ norm.t.s \in CanonicalT =>
              /\ norm.is_t1 = "True" <=> norm.t.s[2] = "1"
              /\ norm.is_t2 = "True" <=> norm.t.s[2] = "2"
              /\ norm.is_t3_to_t4 = "True" <=> norm.t.s[2] \in { "3", "4" }
              /\ norm.is_t2a = "True" <=> norm.t.s = <<"t", "2", "a">>
              /\ norm.is_t2b_to_t2c = "True"
                    <=> norm.t.s \in { <<"t", "2", "b">>, <<"t", "2", "c">> }
        /\ norm.m.ok /\ norm.m.s \in CanonicalM \ { <<"m", "0">> }
              => norm.has_distant_metastasis = "True"
        /\ norm.m.ok /\ norm.m.s = <<"m", "0">>
              => norm.has_distant_metastasis = "False"
        /\ norm.n.ok /\ norm.n.s = <<"n", "1">>
              => norm.has_regional_nodes = "True"
        /\ norm.n.ok /\ norm.n.s \in { <<"n", "0">>, <<"n", "x">> }
              => norm.has_regional_nodes = "False"

(* C18 witness: "cT2b" is T2 and T2b-T2c, not T2a, T1 or T3-T4. *)
C18_Witness ==
    /\ Normalized
    /\ t_stage = <<"c", "T", "2", "b">>
    /\ norm.is_t2 = "True" /\ norm.is_t2b_to_t2c = "True"
    /\ norm.is_t2a = "False" /\ norm.is_t1 = "False"
    /\ norm.is_t3_to_t4 = "False"

---------------------------------------------------------------------------

(* C19 (as claimed): in pathologic mode the AJCC result is the one of the *)
(* same pT, pN, cM, PSA and manual Grade Group without any biopsy entry:  *)
(* the cores and the biopsy flag do not change it.                        *)
C19_BiopsyDoesNotAffectPathologicStage ==
    (Classified /\ PathologicMode) =>
        ajcc = classify_ajcc_stage(pt_stage_ss(session), pn_stage_ss(session),
                                   cm_stage_ss(session), psa_input(session),
                                   manual_grade_group(session))

SystematicCodes == { "A", "B", "C", "D", "E", "F", "G", "H", "I", "J", "K", "L" }

SystematicCancerCount ==
    Cardinality({ code \in SystematicCodes :
                    /\ <<code, "type">> \in DOMAIN session
                    /\ session[<<code, "type">>] = "Cancer" })

(* C20: with biopsy details entered, the percentage of positive           *)
(* systematic cores is 100 x (systematic sites with result "Cancer") / 12,*)
(* and classify_nccn_risk is called with cores_positive = that count and  *)
(* cores_total = 12; targeted cores are not counted.                      *)
C20_PercentPositiveSystematic ==
    (Classified /\ BiopsyEntered) =>
        /\ report.positive_systematic = SystematicCancerCount
        /\ report.percent_sys_pos[1] * 12
              = 100 * SystematicCancerCount * report.percent_sys_pos[2]
        /\ NccnCalled =>
              /\ cores_positive = SystematicCancerCount
              /\ cores_total = 12

(* C20 witness: cancer at site A and in targeted core T1 only; the NCCN   *)
(* call got 1 of 12.                                                      *)
C20_Witness ==
    /\ Classified /\ BiopsyEntered /\ NccnCalled
    /\ SystematicCancerCount = 1
    /\ report.positive_targeted = 1
    /\ cores_positive = 1 /\ cores_total = 12
    /\ report.percent_sys_pos = <<100, 12>>

---------------------------------------------------------------------------
(* Vocabulary of the biopsy properties: the cores of the form read off    *)
(* the session, in site order.                                            *)

SiteOrder ==
    <<"A", "B", "C", "D", "E", "F", "G", "H", "I", "J", "K", "L",
      "T1", "T2", "T3">>

EnteredType(code) ==
    IF <<code, "type">> \in DOMAIN session THEN session[<<code, "type">>] ELSE ""

CancerSites == { i \in 1..Len(SiteOrder) : EnteredType(SiteOrder[i]) = "Cancer" }

EnteredGrade(i) ==
    GradeGroupTable[<<session[<<SiteOrder[i], "p">>], session[<<SiteOrder[i], "s">>]>>]

MaxEnteredGrade ==
    CHOOSE g \in { EnteredGrade(i) : i \in CancerSites } :
        \A i \in CancerSites : EnteredGrade(i) <= g

FirstSiteOfMaxGrade ==
    SiteOrder[CHOOSE i \in CancerSites :
                 /\ EnteredGrade(i) = MaxEnteredGrade
                 /\ \A j \in CancerSites : EnteredGrade(j) = MaxEnteredGrade => i <= j]

ManualEntered ==
    IF <<"manual_gg">> \in DOMAIN session /\ session[<<"manual_gg">>] \in 1..5
    THEN session[<<"manual_gg">>]
    ELSE None

C22_NoCancerUsesManualGrade ==
    (Classified /\ (CancerSites = {} \/ ~BiopsyEntered)) =>
        /\ report.highest_gg = None
        /\ report.highest_gg # 0
        /\ grade_group = ManualEntered
        /\ grade_group # 0
        /\ ManualEntered = None =>
              /\ AjccIs("Stage group cannot be determined (Grade Group unknown)")
              /\ ~NccnCalled
              /\ report.risk_group = "None"

(* C22 witness: a cancer core is entered but the biopsy flag is off and   *)
(* the manual Grade Group is "Unknown".                                   *)
C22_Witness ==
    /\ Classified /\ ~BiopsyEntered
    /\ CancerSites # {}
    /\ ManualEntered = None
    /\ report.highest_gg = None /\ grade_group = None
    /\ AjccIs("Stage group cannot be determined (Grade Group unknown)")
    /\ ~NccnCalled

---------------------------------------------------------------------------

CategoryCalled == disease_category.kind # "none"

CategoryIs(label) ==
    disease_category.kind = "return" /\ disease_category.category = label

(* C23: classify_disease_category returns "Metastatic CSPC (M1)" whenever *)
(* M is M1, M1a, M1b or M1c, for any N; "Node-positive (N1, M0)" when N   *)
(* is N1 and M is not M1; "Localized" otherwise; no input is left for the *)
(* "Uncertain" fallback.                                                  *)
C23_DiseaseCategory ==
    CategoryCalled =>
        /\ (WellFormedM /\ MisM1) => CategoryIs("Metastatic CSPC (M1)")
        /\ (WellFormedM /\ WellFormedN /\ ~MisM1 /\ NisN1)
              => CategoryIs("Node-positive (N1, M0)")
        /\ (WellFormedM /\ WellFormedN /\ ~MisM1 /\ ~NisN1)
              => CategoryIs("Localized")
        /\ disease_category.category # "Uncertain"

(* C23 witness: N1 together with M1b is metastatic. *)
C23_Witness ==
    /\ CategoryIs("Metastatic CSPC (M1)")
    /\ n_stage = <<"c", "N", "1">> /\ m_stage = <<"c", "M", "1", "b">>

---------------------------------------------------------------------------

Entered(i, field) == session[<<SiteOrder[i], field>>]

(* C24: with biopsy details, the flags are computed over exactly the      *)
(* cores whose result is Cancer: high volume iff some cancer core has     *)
(* percent >= 50; the high-grade counter is the number of cancer cores of *)
(* Grade Group 4 or 5; the EPE and PNI counts are the numbers of cancer   *)
(* cores with the flag; EPE (PNI) with high grade iff one cancer core has *)
(* the flag and Grade Group >= 3.  Values kept by a Benign, ASAP or Not   *)
(* taken core count for nothing.                                          *)
C24_AggregateFlags ==
    (Classified /\ BiopsyEntered) =>
        /\ Len(report.all_cancer_cores) = Cardinality(CancerSites)
        /\ { report.all_cancer_cores[k].code :
               k \in 1..Len(report.all_cancer_cores) }
              = { SiteOrder[i] : i \in CancerSites }
        /\ report.high_volume_core
              <=> \E i \in CancerSites : Entered(i, "pct") >= 50
        /\ report.high_grade_cores_gg4_5
              = Cardinality({ i \in CancerSites : EnteredGrade(i) \in { 4, 5 } })
        /\ report.epe_count_any
              = Cardinality({ i \in CancerSites : Entered(i, "epe") })
        /\ report.pni_count_any
              = Cardinality({ i \in CancerSites : Entered(i, "pni") })
        /\ report.any_epe_high_gg
              <=> \E i \in CancerSites : Entered(i, "epe") /\ EnteredGrade(i) >= 3
        /\ report.any_pni_high_gg
              <=> \E i \in CancerSites : Entered(i, "pni") /\ EnteredGrade(i) >= 3

(* C24 witness: site A is Benign and keeps 4+5, 80 %, EPE and PNI; the    *)
(* cancer cores are B (4+4) and T1 (4+3, 50 %, EPE, PNI).                 *)
C24_Witness ==
    /\ Classified /\ BiopsyEntered
    /\ EnteredType("A") = "Benign"
    /\ <<"A", "pct">> \in DOMAIN session /\ session[<<"A", "pct">>] = 80
    /\ session[<<"A", "epe">>]
    /\ CancerSites = { 2, 13 }
    /\ report.high_volume_core
    /\ report.high_grade_cores_gg4_5 = 1
    /\ report.epe_count_any = 1 /\ report.pni_count_any = 1
    /\ report.any_epe_high_gg /\ report.any_pni_high_gg

---------------------------------------------------------------------------

NccnInputsEntered ==
    /\ ~PathologicMode
    /\ BiopsyEntered
    /\ CancerSites # {}

(* C25: the NCCN risk group is computed if and only if the staging basis  *)
(* is clinical, the biopsy flag is on and at least one core is Cancer; it *)
(* is then classify_nccn_risk of the clinical T, N, M, the highest core   *)
(* Grade Group, the PSA and the systematic positive count over 12.        *)
(* Otherwise (pathologic mode, or manual Grade Group only) the classifier *)
(* is not called and the risk group and subcategory stay None.            *)
C25_NccnOnlyClinicalWithCancerCore ==
    Classified =>
        /\ NccnCalled <=> NccnInputsEntered
        /\ report.can_compute_nccn <=> NccnInputsEntered
        /\ NccnInputsEntered =>
              /\ nccn = classify_nccn_risk(ct_stage_ss(session), cn_stage_ss(session),
                                           cm_stage_ss(session), MaxEnteredGrade,
                                           psa_input(session), SystematicCancerCount,
                                           12)
              /\ nccn.kind = "return"
              /\ report.risk_group = nccn.category
              /\ report.subcategory = nccn.subcategory
        /\ ~NccnInputsEntered =>
              /\ report.risk_group = "None"
              /\ report.subcategory = "None"

(* C25 witness: pathologic mode with a cancer core entered and a manual   *)
(* Grade Group; the stage is there, the risk group is None.               *)
C25_Witness ==
    /\ Classified /\ PathologicMode /\ BiopsyEntered
    /\ CancerSites # {}
    /\ ManualEntered # None
    /\ AjccCalled /\ ~NccnCalled
    /\ report.risk_group = "None"

(* The other side of C25: clinical mode with a cancer core gives a group. *)
C25_ComputedWitness ==
    /\ Classified /\ NccnInputsEntered
    /\ NccnIs("High", "None")

---------------------------------------------------------------------------

(* The keys of the form, as the reset lists them. *)
FormKeys ==
    { <<"stage_context">>, <<"ct_stage">>, <<"cn_stage">>, <<"cm_stage">>,
      <<"pt_stage">>, <<"pn_stage">>, <<"rp_margin">>, <<"psa">>,
      <<"manual_gg">>, <<"has_biopsy_details">> }
        \cup { <<SiteOrder[i], field>> :
                 i \in 1..Len(SiteOrder),
                 field \in { "type", "p", "s", "pct", "epe", "pni" } }
        \cup { <<code, "desc">> : code \in { "T1", "T2", "T3" } }

(* A step that leaves no report behind is a reset. *)
ResetStepFrame ==
    report' = NoReport =>
        /\ DOMAIN session' = DOMAIN session \ FormKeys
        /\ \A key \in DOMAIN session' : session'[key] = session[key]

(* A classification of a session without any key of the form. *)
DefaultsSeen ==
    (Classified /\ DOMAIN session \cap FormKeys = {}) =>
        /\ t_stage = <<"c", "T", "1", "c">>
        /\ n_stage = <<"c", "N", "0">>
        /\ m_stage = <<"c", "M", "0">>
        /\ pt_stage_ss(session) = <<"p", "T", "2">>
        /\ pn_stage_ss(session) = <<"p", "N", "0">>
        /\ report.rp_margin = "Unknown / not applicable"
        /\ report.all_cancer_cores = <<>>
        /\ report.asap_count = 0
        /\ report.positive_systematic = 0 /\ report.positive_targeted = 0
        /\ report.highest_gg = None
        /\ ~NccnCalled

(* C26: reset_form removes every key of the form that is present (the ten *)
(* top-level keys, type, p, s, pct, epe and pni of A..L and T1..T3, desc  *)
(* of T1..T3), leaves every other key with its value and does not fail on *)
(* an absent key; a classification after the reset sees the defaults      *)
(* (cT1c, cN0, cM0, pT2, pN0, unknown margin, every systematic core       *)
(* Benign, every targeted core Not taken) and no cancer core.             *)
C26_ResetRemovesFormKeys == [][ResetStepFrame]_vars /\ []DefaultsSeen

(* C26 witness: a classification after the reset of a session that held   *)
(* form keys and the key "visits": only "visits" is left.                 *)
C26_Witness ==
    /\ Classified
    /\ DOMAIN session = { <<"visits">> }
    /\ session[<<"visits">>] = 1
    /\ report.all_cancer_cores = <<>>

---------------------------------------------------------------------------

ClinicalT ==
    { <<"c", "T", "X">>, <<"c", "T", "0">>,
      <<"c", "T", "1", "a">>, <<"c", "T", "1", "b">>, <<"c", "T", "1", "c">>,
      <<"c", "T", "2", "a">>, <<"c", "T", "2", "b">>, <<"c", "T", "2", "c">>,
      <<"c", "T", "3", "a">>, <<"c", "T", "3", "b">>, <<"c", "T", "4">> }

ClinicalT1aToT4 == ClinicalT \ { <<"c", "T", "X">>, <<"c", "T", "0">> }

ClinicalN == { <<"c", "N", "X">>, <<"c", "N", "0">>, <<"c", "N", "1">> }

ClinicalM ==
    { <<"c", "M", "0">>, <<"c", "M", "1">>, <<"c", "M", "1", "a">>,
      <<"c", "M", "1", "b">>, <<"c", "M", "1", "c">> }

ClinicalTNM ==
    t_stage \in ClinicalT /\ n_stage \in ClinicalN /\ m_stage \in ClinicalM

AjccFallback == "Stage group cannot be determined"

(* C27: over the clinical and pathologic T lists, N in NX, N0, N1, the M  *)
(* list, Grade Group 1..5 and PSA >= 0, classify_ajcc_stage returns the   *)
(* fallback "Stage group cannot be determined" exactly when there is no   *)
(* N1 or M1, T is the unsubdivided T2 (pT2), the Grade Group is 1 and     *)
(* PSA < 20; it is never returned for a clinical T other than TX and T0.  *)
C27_AjccFallbackOnlyForPlainT2 ==
    (AjccCalled /\ ValidTNM /\ GradeKnown) =>
        /\ AjccIs(AjccFallback)
              <=> /\ NoN1M1
                  /\ CanonT = <<"t", "2">>
                  /\ grade_group = 1
                  /\ psa < Ng(20)
        /\ t_stage \in ClinicalT1aToT4 => ~AjccIs(AjccFallback)

(* C27 witness: pT2, pN0, cM0, Grade Group 1 at the default PSA of 6.5    *)
(* has no stage group.                                                    *)
C27_Witness ==
    /\ AjccIs(AjccFallback)
    /\ t_stage = <<"p", "T", "2">>
    /\ n_stage = <<"p", "N", "0">>
    /\ m_stage = <<"c", "M", "0">>
    /\ grade_group = 1
    /\ psa = Ng(6) + 5

---------------------------------------------------------------------------

NccnRiskLabels == { "Low", "Intermediate", "High", "Very high", MetastaticRegional }

(* C28: over the clinical T, N, M lists, Grade Group 1..5, PSA >= 0 and   *)
(* cores_total > 0, classify_nccn_risk returns "Unclassifiable" exactly   *)
(* when there is no N1 or M1, T is TX or T0, the Grade Group is 1 and     *)
(* PSA < 10; for cT1a..cT4 the result is always Low, Intermediate, High,  *)
(* Very high or the metastatic/regional category.                         *)
C28_UnclassifiableOnlyForTXT0 ==
    (NccnCalled /\ ClinicalTNM /\ GradeKnown /\ cores_total > 0) =>
        /\ NccnIs("Unclassifiable", "None")
              <=> /\ NoN1M1
                  /\ TisTXorT0
                  /\ grade_group = 1
                  /\ psa < Ng(10)
        /\ t_stage \in ClinicalT1aToT4 =>
              nccn.kind = "return" /\ nccn.category \in NccnRiskLabels

(* C28 witness: cT0, cNX, cM0, Grade Group 1, PSA 9.9 is unclassifiable. *)
C28_Witness ==
    /\ NccnIs("Unclassifiable", "None")
    /\ t_stage = <<"c", "T", "0">>
    /\ n_stage = <<"c", "N", "X">>
    /\ m_stage = <<"c", "M", "0">>
    /\ grade_group = 1
    /\ psa = Ng(10) - 1
    /\ cores_total > 0

---------------------------------------------------------------------------

AllThreeCalled == NccnCalled /\ AjccCalled /\ CategoryCalled

(* C29: on the same clinical T, N, M, PSA and Grade Group 1..5 (with      *)
(* cores_total > 0) classify_nccn_risk returns the metastatic/regional    *)
(* category iff classify_ajcc_stage returns Stage IVA or Stage IVB iff    *)
(* classify_disease_category is not "Localized"; and classify_nccn_risk   *)
(* returns "Low" iff classify_ajcc_stage returns "Stage I".               *)
C29_ClassifiersAgree ==
    (AllThreeCalled /\ ClinicalTNM /\ GradeKnown /\ cores_total > 0) =>
        /\ NccnIs(MetastaticRegional, "None")
              <=> (AjccIs("Stage IVA") \/ AjccIs("Stage IVB"))
        /\ (AjccIs("Stage IVA") \/ AjccIs("Stage IVB"))
              <=> ~CategoryIs("Localized")
        /\ disease_category.kind = "return"
        /\ NccnIs("Low", "None") <=> AjccIs("Stage I")

(* C29 witness: cT2a, cN1, cM0 is metastatic/regional, Stage IVA and      *)
(* node-positive.                                                         *)
C29_Witness ==
    /\ AllThreeCalled
    /\ t_stage = <<"c", "T", "2", "a">>
    /\ n_stage = <<"c", "N", "1">>
    /\ m_stage = <<"c", "M", "0">>
    /\ grade_group = 1
    /\ NccnIs(MetastaticRegional, "None")
    /\ AjccIs("Stage IVA")
    /\ CategoryIs("Node-positive (N1, M0)")

(* The other half of C29: cT1c, cN0, cM0, Grade Group 1, PSA 6.5 is Low   *)
(* and Stage I.                                                           *)
C29_LowWitness ==
    /\ AllThreeCalled
    /\ t_stage = <<"c", "T", "1", "c">>
    /\ NccnIs("Low", "None")
    /\ AjccIs("Stage I")
    /\ CategoryIs("Localized")

---------------------------------------------------------------------------

(* Low < Intermediate/Favorable < Intermediate/Unfavorable < High <       *)
(* Very high; 0 for any other result.                                     *)
NccnRank(result) ==
    IF result.kind # "return" THEN 0
    ELSE IF result.category = "Low" THEN 1
    ELSE IF result.category = "Intermediate" /\ result.subcategory = "Favorable" THEN 2
    ELSE IF result.category = "Intermediate" /\ result.subcategory = "Unfavorable" THEN 3
    ELSE IF result.category = "High" THEN 4
    ELSE IF result.category = "Very high" THEN 5
    ELSE 0

NccnAtPsa(p) ==
    classify_nccn_risk(t_stage, n_stage, m_stage, grade_group, p,
                       cores_positive, cores_total)

LocalizedClinicalCall ==
    /\ NccnCalled
    /\ t_stage \in ClinicalT1aToT4
    /\ n_stage \in ClinicalN /\ m_stage \in ClinicalM
    /\ NoN1M1
    /\ GradeKnown
    /\ cores_total > 0

(* C30: the NCCN risk never decreases when the PSA rises: for cT1a..cT4,  *)
(* no N1 or M1, Grade Group 1..5 and the core counts held fixed, the rank *)
(* (Low < Intermediate/Favorable < Intermediate/Unfavorable < High <      *)
(* Very high) at a PSA is at most the rank at any higher PSA.             *)
C30_NccnMonotoneInPsa ==
    LocalizedClinicalCall =>
        /\ NccnRank(nccn) >= 1
        /\ \A p2 \in PsaValues :
              psa <= p2 => NccnRank(nccn) <= NccnRank(NccnAtPsa(p2))

(* C30 witness: cT1c, Grade Group 1 is Low at PSA 9.9, Intermediate at 10 *)
(* and High at 20.1.                                                      *)
C30_Witness ==
    /\ LocalizedClinicalCall
    /\ t_stage = <<"c", "T", "1", "c">>
    /\ grade_group = 1
    /\ psa = Ng(10) - 1
    /\ NccnIs("Low", "None")
    /\ NccnAtPsa(Ng(10)).category = "Intermediate"
    /\ NccnAtPsa(Ng(20) + 1).category = "High"

====
